---- MODULE Spec2Model ----
(***************************************************************************)
(* Model of src/lexer.go: the BufferPool (swap, free) and the Lexer        *)
(* (NewLexerSize, read, Err, Peek, Move, Pos, Rewind, Lexeme, Shift,       *)
(* ShiftLen, Skip).                                                        *)
(*                                                                         *)
(* A Go slice is modelled as a record [id, len, cap]: the backing array    *)
(* it points into (an index into mem), its length and its capacity.  All   *)
(* slices the program keeps start at offset 0 of their backing array.      *)
(* mem[id] is the content of backing array id, a sequence of cap bytes.    *)
(* Go indices are 0-based, TLA+ sequences 1-based: byte i of slice b is    *)
(* mem[b.id][i + 1].  Pool links (head, tail, next) are "index plus one"   *)
(* in the source, which is exactly a 1-based index with 0 for none.        *)
(***************************************************************************)
EXTENDS Integers, Sequences, FiniteSets, TLC

\* ------------------------------------------------------------- bounds
StreamLen == 3      \* bytes the source holds
MaxSize == 2        \* largest size passed to NewLexerSize
MaxOff == 1         \* largest offset passed to Peek
MaxMove == 1        \* largest |n| passed to Move
MaxFree == 1        \* largest n passed to Free in one call

\* The source stream: the UTF-8 encodings of U+20AC (E2 82 AC), U+00E9
\* (C3 A9) and the first bytes of U+1F600 (F0 9F 98): every byte is distinct
\* and non-zero, so a misplaced byte is visible, and leading bytes of
\* multi-byte sequences occur.  The stream is the first StreamLen of them.
StreamBytes == <<226, 130, 172, 195, 169, 240, 159, 152>>

Stream == [i \in 1..StreamLen |-> StreamBytes[i]]

\* The errors a source read can return; "nil" is no error, "EOF" is io.EOF.
NoErr == "nil"
EOF == "EOF"
ErrOther == "ErrOther"
Errors == {NoErr, EOF, ErrOther}

\* What a Read can return when the source has delivered `from` bytes and is
\* handed a slice of length room: n bytes, n at most room and at most what
\* is left, and an error; end-of-stream only with the last byte of the
\* stream.  (0, nil) is allowed by io.Reader.
ReadResults(from, room) ==
  {r \in [n : 0..StreamLen, e : Errors] :
     /\ r.n <= room
     /\ from + r.n <= StreamLen
     /\ (r.e = EOF => from + r.n = StreamLen)}

VARIABLES
  z,          \* the Lexer: [err, buf, start, pos, prevStart]
  pool,       \* the BufferPool: [pool, head, tail, pos]
  mem,        \* backing arrays: sequence of byte sequences
  rd,         \* bytes the source has delivered so far
  ret,        \* [op, a, b]: the last call if it was a Peek that refilled (a its offset,
              \* b the byte returned) or a ShiftLen (a the bytes committed since the
              \* previous one, b the value returned); op is "none" after another
              \* call that changed the state
  fault,      \* TRUE once a call has panicked (index out of range)
  \* history of the calls, kept to state the properties
  cur,        \* absolute stream offset of the cursor, from the calls' arguments
  com,        \* absolute stream offset of the last commit point (Shift/Skip)
  shifted,    \* concatenation of every Shift result, kept while Skip has not been called
  skipped,    \* TRUE once Skip has been called
  lenAt,      \* the value of com at the last ShiftLen call (0 before the first)
  live,       \* where each committed byte not yet reported consumed lives:
              \* <<id, index>>, in commit order
  freed,      \* total of the counts passed to Free, never above com
  clobbered,  \* TRUE once a refill got storage for writing that held a committed, unfreed byte
  retired,    \* total length of the buffers handed to swap so far
  due,        \* per pool slot: retired when swap put its buffer there (the buffer
              \* included), the consumption that covers the block and all before it
  last,       \* the last swap: [size, buf, path]: the capacity asked, the slice
              \* returned, the path taken ("none" before the first swap)
  reads,      \* number of calls of the source's Read
  swaps,      \* number of calls of swap
  mk          \* a mark being followed: [phase, mark, sw, peeks, lex]: the value of
              \* Pos() taken, swaps at that moment, what Peek(i) returned immediately
              \* before the cursor moved on (-1: it would refill) and Lexeme(); phase is
              \* "marked", then "moved" (forward), then "rewound" (to the mark)

vars == <<z, pool, mem, rd, ret, fault, cur, com, shifted, skipped, lenAt,
          live, freed, clobbered, retired, due, last, reads, swaps, mk>>

\* ------------------------------------------------------------ helpers
Zeros(n) == [i \in 1..n |-> 0]

\* buf[lo:hi] as a sequence of bytes (0-based, hi exclusive)
Bytes(M, b, lo, hi) == [i \in 1..(hi - lo) |-> M[b.id][lo + i]]

\* the sequence s without its first n elements
Drop(s, n) == [i \in 1..(Len(s) - n) |-> s[n + i]]

\* ------------------------------------------------------ BufferPool.swap
\* FirstFit that takes the last fitting block instead of the first
FirstFitLast(P, size) ==
  LET S == {i \in 1..Len(P.pool) : ~P.pool[i].active /\ size <= P.pool[i].buf.cap}
  IN IF S = {} THEN 0 ELSE CHOOSE i \in S : \A j \in S : i >= j

\* FirstFit without the capacity test of line 23
FirstFitAnyCapacity(P, size) ==
  LET S == {i \in 1..Len(P.pool) : ~P.pool[i].active}
  IN IF S = {} THEN 0 ELSE CHOOSE i \in S : \A j \in S : i <= j

\* lines 21-27: the first inactive block with enough capacity, 0 for none
FirstFit(P, size) ==
  LET S == {i \in 1..Len(P.pool) : ~P.pool[i].active /\ size <= P.pool[i].buf.cap}
  IN IF S = {} THEN 0 ELSE CHOOSE i \in S : \A j \in S : i <= j

\* CanReuseInPlace without the test that the retired bytes are consumed
CanReuseInPlaceUnconsumed(P, oldBuf, size) ==
  P.tail = 0 /\ size <= oldBuf.cap

\* CanReuseInPlace without the test that the chain is empty
CanReuseInPlaceAnyChain(P, oldBuf, size) ==
  P.pos >= oldBuf.len /\ size <= oldBuf.cap

\* line 29: the retired buffer itself can be reused
CanReuseInPlace(P, oldBuf, size) ==
  P.tail = 0 /\ P.pos >= oldBuf.len /\ size <= oldBuf.cap

\* swap that links the claimed slot into the chain without putting the
\* retired buffer into it (line 41 left out)
swapLeavesSlot(P, M, oldBuf, size) ==
  LET found == FirstFit(P, size)
  IN IF found = 0 /\ CanReuseInPlace(P, oldBuf, size)
     THEN [pool |-> [P EXCEPT !.pos = @ - oldBuf.len],
           mem |-> M,
           buf |-> [oldBuf EXCEPT !.len = 0],
           path |-> "inplace", slot |-> 0]
     ELSE LET fresh == found = 0
              M1 == IF fresh THEN Append(M, Zeros(size)) ELSE M
              b1 == IF fresh
                    THEN Append(P.pool, [buf |-> [id |-> Len(M1), len |-> 0, cap |-> size],
                                         next |-> 0, active |-> TRUE])
                    ELSE P.pool
              sw == IF fresh THEN Len(b1) ELSE found
              newBuf == b1[sw].buf
              b2 == [b1 EXCEPT ![sw].next = 0, ![sw].active = TRUE]
              b3 == IF P.head # 0 THEN [b2 EXCEPT ![P.head].next = sw] ELSE b2
          IN [pool |-> [pool |-> b3, head |-> sw,
                        tail |-> IF P.tail = 0 THEN sw ELSE P.tail,
                        pos |-> P.pos],
              mem |-> M1,
              buf |-> [newBuf EXCEPT !.len = 0],
              path |-> IF fresh THEN "fresh" ELSE "recycled", slot |-> sw]

\* the whole of swap: the pool, the memory (an allocation adds an array),
\* the returned slice and the path taken
swap(P, M, oldBuf, size) ==
  LET found == FirstFit(P, size)
  IN IF found = 0 /\ CanReuseInPlace(P, oldBuf, size)
     THEN [pool |-> [P EXCEPT !.pos = @ - oldBuf.len],
           mem |-> M,
           buf |-> [oldBuf EXCEPT !.len = 0],
           path |-> "inplace", slot |-> 0]
     ELSE LET fresh == found = 0
              M1 == IF fresh THEN Append(M, Zeros(size)) ELSE M
              b1 == IF fresh
                    THEN Append(P.pool, [buf |-> [id |-> Len(M1), len |-> 0, cap |-> size],
                                         next |-> 0, active |-> TRUE])
                    ELSE P.pool
              sw == IF fresh THEN Len(b1) ELSE found
              newBuf == b1[sw].buf
              b2 == [b1 EXCEPT ![sw] = [buf |-> oldBuf, next |-> 0, active |-> TRUE]]
              b3 == IF P.head # 0 THEN [b2 EXCEPT ![P.head].next = sw] ELSE b2
          IN [pool |-> [pool |-> b3, head |-> sw,
                        tail |-> IF P.tail = 0 THEN sw ELSE P.tail,
                        pos |-> P.pos],
              mem |-> M1,
              buf |-> [newBuf EXCEPT !.len = 0],
              path |-> IF fresh THEN "fresh" ELSE "recycled", slot |-> sw]

\* ------------------------------------------------------ BufferPool.free
\* drain with > for >= in line 56: a block is kept until a byte after it is consumed
RECURSIVE drainLate(_)
drainLate(P) ==
  IF P.tail # 0 /\ P.pos > P.pool[P.tail].buf.len
  THEN drainLate([P EXCEPT !.pos = @ - P.pool[P.tail].buf.len,
                           !.tail = P.pool[P.tail].next,
                           !.pool[P.tail].active = FALSE])
  ELSE P

\* lines 56-61: move the tail over the drained blocks
RECURSIVE drain(_)
drain(P) ==
  IF P.tail # 0 /\ P.pos >= P.pool[P.tail].buf.len
  THEN drain([P EXCEPT !.pos = @ - P.pool[P.tail].buf.len,
                       !.tail = P.pool[P.tail].next,
                       !.pool[P.tail].active = FALSE])
  ELSE P

\* free that counts the bytes and leaves the chain as it is
freeWithoutDrain(P, n) == [P EXCEPT !.pos = @ + n]

\* free that does not reset head when the chain has become empty
freeKeepsHead(P, n) == drain([P EXCEPT !.pos = @ + n])

\* lines 54-64
free(P, n) ==
  LET Q == drain([P EXCEPT !.pos = @ + n])
  IN IF Q.tail = 0 THEN [Q EXCEPT !.head = 0] ELSE Q

\* ---------------------------------------------------------- Lexer.read
\* lines 118-122: the capacity asked of the pool for a miss at index q
ReadCap(zz, q) ==
  LET c == zz.buf.cap
      p == q - zz.start
  IN IF 2 * p > c THEN 2 * c + p ELSE c

\* CopyLeftOvers from z.buf[0:] instead of z.buf[z.start:]
CopyFromBufferStart(M, old, start, new, d) ==
  [M EXCEPT ![new.id] = [i \in 1..new.cap |->
                           IF i <= d THEN M[old.id][i] ELSE M[new.id][i]]]

\* line 125: copy(buf[:d], z.buf[z.start:]); source and target may be the
\* same array (in-place reuse), Go's copy then behaves as memmove
CopyLeftOvers(M, old, start, new, d) ==
  [M EXCEPT ![new.id] = [i \in 1..new.cap |->
                           IF i <= d THEN M[old.id][start + i] ELSE M[new.id][i]]]

\* SourceRead into buf[0:] instead of buf[d:], over the left-overs
SourceReadAtStart(M, new, d, from, n) ==
  [M EXCEPT ![new.id] = [i \in 1..new.cap |->
                           IF i <= n THEN Stream[from + i] ELSE @[i]]]

\* line 129: the source writes its next n bytes at buf[d:]
SourceRead(M, new, d, from, n) ==
  [M EXCEPT ![new.id] = [i \in 1..new.cap |->
                           IF i > d /\ i <= d + n THEN Stream[from + (i - d)] ELSE @[i]]]

\* line 129: the length of buf[d:cap(buf)], the slice handed to the source
Room(zz, P, M, q) ==
  swap(P, M, [zz.buf EXCEPT !.len = zz.start], ReadCap(zz, q)).buf.cap
    - (zz.buf.len - zz.start)

\* lines 117-139, for a miss at index q when no error is recorded; the
\* source's Read returns (n, e), n at most Room.  ok is FALSE when line 139
\* indexes outside z.buf.
read(zz, P, M, from, q, n, e) ==
  LET c == ReadCap(zz, q)
      d == zz.buf.len - zz.start
      S == swap(P, M, [zz.buf EXCEPT !.len = zz.start], c)
      M1 == CopyLeftOvers(S.mem, zz.buf, zz.start, S.buf, d)
      M2 == SourceRead(M1, S.buf, d, from, n)
      q1 == q - zz.start
      err1 == IF n = 0 /\ e = NoErr THEN EOF ELSE e
      z1 == [zz EXCEPT !.err = err1,
                       !.pos = @ - zz.start,
                       !.start = 0,
                       !.buf = [S.buf EXCEPT !.len = d + n]]
  IN [z |-> z1, pool |-> S.pool, mem |-> M2,
      ok |-> n = 0 \/ q1 < d + n,
      b |-> IF n # 0 /\ q1 < d + n THEN M2[S.buf.id][q1 + 1] ELSE 0,
      size |-> c, buf |-> S.buf, path |-> S.path, slot |-> S.slot,
      retired |-> zz.start]

\* Exhausted that takes only end-of-stream for terminal
ExhaustedOnlyEOF(zz) == zz.err = EOF

\* line 113: an error is recorded, read returns 0 without refilling
Exhausted(zz) == zz.err # NoErr

\* ----------------------------------------------------------- Lexer.Err
\* Err that reports end-of-stream whenever the cursor is at the end of the buffer
ErrAtBufferEnd(zz) ==
  IF zz.pos < zz.buf.len THEN NoErr
  ELSE IF zz.err = NoErr THEN EOF ELSE zz.err

\* Err without the suppression of line 144
ErrUnsuppressed(zz) == zz.err

\* lines 144-147
Err(zz) == IF zz.err = EOF /\ zz.pos < zz.buf.len THEN NoErr ELSE zz.err

\* ----------------------------------------------------- Lexer.Pos, Lexeme
\* line 182
Pos(zz) == zz.pos - zz.start

\* line 192
Lexeme(zz, M) == Bytes(M, zz.buf, zz.start, zz.pos)

\* -------------------------------------------------------- NewLexerSize
EmptyPool == [pool |-> <<>>, head |-> 0, tail |-> 0, pos |-> 0]

\* ret after construction and after a call other than a refilling Peek and ShiftLen
NoRet == [op |-> "none", a |-> 0, b |-> 0]

\* no mark is being followed
NoMark == [phase |-> "none", mark |-> 0, sw |-> 0,
           peeks |-> [i \in 0..MaxOff |-> -1], lex |-> <<>>]

\* LexerOfBytes with no error recorded
LexerOfBytesUnexhausted ==
  [err |-> NoErr, buf |-> [id |-> 1, len |-> StreamLen, cap |-> StreamLen],
   start |-> 0, pos |-> 0, prevStart |-> 0]

\* lines 97-100: the source exposes its content; it becomes the buffer
LexerOfBytes ==
  [err |-> EOF, buf |-> [id |-> 1, len |-> StreamLen, cap |-> StreamLen],
   start |-> 0, pos |-> 0, prevStart |-> 0]

\* lines 102-105: an empty buffer of the estimated size
LexerOfSize(size) ==
  [err |-> NoErr, buf |-> [id |-> 1, len |-> 0, cap |-> size],
   start |-> 0, pos |-> 0, prevStart |-> 0]

\* due after a refill R, c being the total length retired with it
DueAfter(h, R, c) ==
  IF R.path = "inplace" THEN h
  ELSE IF R.path = "fresh" THEN Append(h, c)
  ELSE [h EXCEPT ![R.slot] = c]

LastAfter(R) == [size |-> R.size, buf |-> R.buf, path |-> R.path]

\* the storage swap returned holds a committed byte not yet reported consumed
Clobbers(cs, R) == \E k \in 1..Len(cs) : cs[k][1] = R.buf.id

\* The state after construction.  With Bytes (lines 94-100) nothing is read;
\* otherwise line 106 peeks at offset 0, which misses on the empty buffer
\* and refills once: the source's first Read returns (n, e).
InitBytes ==
  /\ z = LexerOfBytes
  /\ pool = EmptyPool
  /\ mem = <<Stream>>
  /\ rd = StreamLen
  /\ retired = 0
  /\ due = <<>>
  /\ last = [size |-> 0, buf |-> [id |-> 0, len |-> 0, cap |-> 0], path |-> "none"]
  /\ reads = 0
  /\ swaps = 0

InitSize ==
  \E size \in 0..MaxSize :
   \E r \in ReadResults(0, Room(LexerOfSize(size), EmptyPool, <<Zeros(size)>>, 0)) :
    LET R == read(LexerOfSize(size), EmptyPool, <<Zeros(size)>>, 0, 0, r.n, r.e)
    IN /\ z = R.z
       /\ pool = R.pool
       /\ mem = R.mem
       /\ rd = r.n
       /\ retired = R.retired
       /\ due = DueAfter(<<>>, R, R.retired)
       /\ last = LastAfter(R)
       /\ reads = 1
       /\ swaps = 1

Init ==
  /\ (InitBytes \/ InitSize)
  /\ ret = NoRet
  /\ fault = FALSE
  /\ cur = 0
  /\ com = 0
  /\ shifted = <<>>
  /\ skipped = FALSE
  /\ lenAt = 0
  /\ live = <<>>
  /\ freed = 0
  /\ clobbered = FALSE
  /\ mk = NoMark

\* ---------------------------------------------------------- Lexer.Peek
\* What Peek(off) returns when it does not refill: the buffered byte
\* (line 157), or 0 on a miss with an error recorded (lines 113-115).
PeekValue(zz, M, off) ==
  IF off + zz.pos < zz.buf.len THEN M[zz.buf.id][off + zz.pos + 1] ELSE 0

\* line 157: the byte is buffered; nothing is assigned
PeekHit(off) ==
  /\ off + z.pos < z.buf.len
  /\ UNCHANGED vars

\* lines 113-115: a miss with an error recorded returns 0 at once
PeekExhausted(off) ==
  /\ off + z.pos >= z.buf.len
  /\ Exhausted(z)
  /\ UNCHANGED vars

\* lines 117-139: a miss refills; the source's Read returns (n, e)
PeekRefill(off) ==
  /\ off + z.pos >= z.buf.len
  /\ ~Exhausted(z)
  /\ \E r \in ReadResults(rd, Room(z, pool, mem, off + z.pos)) :
       LET R == read(z, pool, mem, rd, off + z.pos, r.n, r.e)
       IN /\ z' = R.z
          /\ pool' = R.pool
          /\ mem' = R.mem
          /\ rd' = rd + r.n
          /\ fault' = ~R.ok
          /\ ret' = [op |-> "Peek", a |-> off, b |-> R.b]
          /\ retired' = retired + R.retired
          /\ due' = DueAfter(due, R, retired + R.retired)
          /\ last' = LastAfter(R)
          /\ clobbered' = (clobbered \/ Clobbers(live, R))
          /\ reads' = reads + 1
          /\ swaps' = swaps + 1
  /\ UNCHANGED <<cur, com, shifted, skipped, lenAt, live, freed, mk>>

Peek(off) ==
  /\ ~fault
  /\ (PeekHit(off) \/ PeekExhausted(off) \/ PeekRefill(off))

\* ------------------------------------------------------ Lexer.PeekRune
\* c & (2^k - 1) and x << k on non-negative integers
LowBits(c, k) == c % (2 ^ k)
ShiftLeft(x, k) == x * (2 ^ k)

\* RuneLen that takes every byte with the high bit set for a two-byte leader
RuneLenByHighBit(c) == IF c < 128 THEN 1 ELSE 2

\* lines 164-171: the length returned for the leading byte c
RuneLen(c) ==
  IF c < 192 THEN 1
  ELSE IF c < 224 THEN 2
  ELSE IF c < 240 THEN 3
  ELSE 4

\* lines 165-171: the rune returned for the leading byte c and what the
\* Peeks at the following offsets returned; the operands of | have no bit
\* in common, so | is +
RuneOf(c, b1, b2, b3) ==
  IF RuneLen(c) = 1 THEN c
  ELSE IF RuneLen(c) = 2 THEN ShiftLeft(LowBits(c, 5), 6) + LowBits(b1, 6)
  ELSE IF RuneLen(c) = 3
       THEN ShiftLeft(LowBits(c, 4), 12) + ShiftLeft(LowBits(b1, 6), 6) + LowBits(b2, 6)
  ELSE ShiftLeft(LowBits(c, 3), 18) + ShiftLeft(LowBits(b1, 6), 12)
         + ShiftLeft(LowBits(b2, 6), 6) + LowBits(b3, 6)

\* The pool, the Lexer and the history as one value, to follow the Peeks
\* that one PeekRune makes; ok is FALSE once one of them has panicked and
\* b is what the last one returned.
Machine ==
  [z |-> z, pool |-> pool, mem |-> mem, rd |-> rd, ok |-> TRUE, b |-> 0,
   retired |-> retired, due |-> due, last |-> last, clobbered |-> clobbered,
   reads |-> reads, swaps |-> swaps]

\* Peek(off) on S refills (lines 154-155 and 113)
Misses(S, off) == S.ok /\ off + S.z.pos >= S.z.buf.len /\ ~Exhausted(S.z)

\* what the source's Read can return to Peek(off) on S; one value, not
\* used, when Peek(off) does not call it
NotRead == [n |-> 0, e |-> NoErr]

ReadResultsAt(S, off) ==
  IF Misses(S, off)
  THEN ReadResults(S.rd, Room(S.z, S.pool, S.mem, off + S.z.pos))
  ELSE {NotRead}

\* lines 152-158: Peek(off) on S, the source's Read returning r if it is called
peek(S, off, r) ==
  IF ~S.ok THEN S
  ELSE IF ~Misses(S, off) THEN [S EXCEPT !.b = PeekValue(S.z, S.mem, off)]
  ELSE LET R == read(S.z, S.pool, S.mem, S.rd, off + S.z.pos, r.n, r.e)
       IN [z |-> R.z, pool |-> R.pool, mem |-> R.mem, rd |-> S.rd + r.n,
           ok |-> R.ok, b |-> R.b,
           retired |-> S.retired + R.retired,
           due |-> DueAfter(S.due, R, S.retired + R.retired),
           last |-> LastAfter(R),
           clobbered |-> (S.clobbered \/ Clobbers(live, R)),
           reads |-> S.reads + 1, swaps |-> S.swaps + 1]

\* What PeekRune(off) returns when none of its Peeks refills: <<rune, length>>
PeekRuneValue(zz, M, off) ==
  LET c == PeekValue(zz, M, off)
  IN <<RuneOf(c, PeekValue(zz, M, off + 1), PeekValue(zz, M, off + 2),
              PeekValue(zz, M, off + 3)),
       RuneLen(c)>>

\* T is [m, bs]: the machine and the bytes the Peeks of one PeekRune have
\* returned so far; T after one more Peek left the machine S
Peeked(T, S) == [m |-> S, bs |-> Append(T.bs, S.b)]

\* the i-th byte peeked, 0 when PeekRune did not peek that far
PeekedByte(bs, i) == IF i <= Len(bs) THEN bs[i] ELSE 0

\* lines 163-171: the outcomes of the Peeks that PeekRune(off) still makes
\* from T on: Peek(off), then Peek(off+1) .. Peek(off+length-1) in this
\* order, the length being that of the first byte peeked; each Peek may
\* refill, with any result of the source's Read, and a panic ends the call
RECURSIVE PeekRunePeeks(_, _)
PeekRunePeeks(T, off) ==
  IF ~T.m.ok \/ (T.bs # <<>> /\ Len(T.bs) >= RuneLen(T.bs[1]))
  THEN {T}
  ELSE UNION {PeekRunePeeks(Peeked(T, peek(T.m, off + Len(T.bs), r)), off) :
                r \in ReadResultsAt(T.m, off + Len(T.bs))}

\* lines 161-173.  When no Peek refilled nothing is assigned and
\* PeekRuneValue is what is returned.
PeekRune(off) ==
  /\ ~fault
  /\ \E T \in PeekRunePeeks([m |-> Machine, bs |-> <<>>], off) :
       /\ z' = T.m.z
       /\ pool' = T.m.pool
       /\ mem' = T.m.mem
       /\ rd' = T.m.rd
       /\ fault' = ~T.m.ok
       /\ ret' = IF T.m.reads = reads THEN ret
                 ELSE [op |-> "PeekRune", a |-> off,
                       b |-> RuneOf(PeekedByte(T.bs, 1), PeekedByte(T.bs, 2),
                                    PeekedByte(T.bs, 3), PeekedByte(T.bs, 4)),
                       n |-> RuneLen(PeekedByte(T.bs, 1))]
       /\ retired' = T.m.retired
       /\ due' = T.m.due
       /\ last' = T.m.last
       /\ clobbered' = T.m.clobbered
       /\ reads' = T.m.reads
       /\ swaps' = T.m.swaps
  /\ UNCHANGED <<cur, com, shifted, skipped, lenAt, live, freed, mk>>

\* ---------------------------------------------------------- Lexer.Move
\* What Peek(i) returns right now, for every offset whose Peek does not
\* refill (-1 for the others: peeking there changes the state first).
PeeksNow ==
  [i \in 0..MaxOff |->
     IF i + z.pos < z.buf.len \/ Exhausted(z) THEN PeekValue(z, mem, i) ELSE -1]

\* the mark bookkeeping after Move(n): the first forward move after a mark
\* notes what the Peeks return immediately before it; a backward move
\* ends the following of the mark
MarkMove(n) ==
  IF n > 0 /\ mk.phase = "marked" THEN [mk EXCEPT !.phase = "moved", !.peeks = PeeksNow]
  ELSE IF n > 0 /\ mk.phase = "moved" THEN mk
  ELSE NoMark

\* line 177, for the calls that keep the cursor in the buffered window
Move(n) ==
  /\ ~fault
  /\ z.start <= z.pos + n
  /\ z.pos + n <= z.buf.len
  /\ z' = [z EXCEPT !.pos = @ + n]
  /\ cur' = cur + n
  /\ ret' = NoRet
  /\ mk' = MarkMove(n)
  /\ UNCHANGED <<pool, mem, rd, fault, com, shifted, skipped, lenAt, live,
                 freed, clobbered, retired, due, last, reads, swaps>>

\* -------------------------------------------------------- Lexer.Rewind
\* RewindTo that takes the mark for an index into the buffer
RewindToIndex(zz, p) == [zz EXCEPT !.pos = p]

\* line 187
RewindTo(zz, p) == [zz EXCEPT !.pos = zz.start + p]

\* Rewind, for the positions inside the buffered window
Rewind(p) ==
  /\ ~fault
  /\ z.start + p <= z.buf.len
  /\ z' = RewindTo(z, p)
  /\ cur' = com + p
  /\ ret' = NoRet
  /\ mk' = NoMark
  /\ UNCHANGED <<pool, mem, rd, fault, com, shifted, skipped, lenAt, live,
                 freed, clobbered, retired, due, last, reads, swaps>>

\* --------------------------------------------------- Lexer.Shift, Skip
\* the cells of z.buf[z.start:z.pos]
Selection(zz) == [i \in 1..(zz.pos - zz.start) |-> <<zz.buf.id, zz.start + i>>]

\* Collapse that moves the token start to the end of the buffer
CollapseToBufferEnd(zz) == [zz EXCEPT !.start = zz.buf.len]

\* line 198 (and 211): collapse the selection
Collapse(zz) == [zz EXCEPT !.start = zz.pos]

Shift ==
  /\ ~fault
  /\ z' = Collapse(z)
  /\ ret' = NoRet
  /\ shifted' = IF skipped THEN shifted ELSE shifted \o Lexeme(z, mem)
  /\ live' = live \o Selection(z)
  /\ com' = cur
  /\ mk' = NoMark
  /\ UNCHANGED <<pool, mem, rd, fault, cur, skipped, lenAt, freed,
                 clobbered, retired, due, last, reads, swaps>>

Skip ==
  /\ ~fault
  /\ z' = Collapse(z)
  /\ ret' = NoRet
  /\ skipped' = TRUE
  /\ shifted' = <<>>
  /\ live' = live \o Selection(z)
  /\ com' = cur
  /\ mk' = NoMark
  /\ UNCHANGED <<pool, mem, rd, fault, cur, lenAt, freed,
                 clobbered, retired, due, last, reads, swaps>>

\* ------------------------------------------------------ Lexer.ShiftLen
\* lines 204-206
ShiftLenValue(zz) == zz.start - zz.prevStart

ShiftLen ==
  /\ ~fault
  /\ z' = [z EXCEPT !.prevStart = z.start]
  /\ ret' = [op |-> "ShiftLen", a |-> com - lenAt, b |-> ShiftLenValue(z)]
  /\ lenAt' = com
  /\ UNCHANGED <<pool, mem, rd, fault, cur, com, shifted, skipped, live, freed,
                 clobbered, retired, due, last, reads, swaps, mk>>

\* ---------------------------------------------------------- Lexer.Free
\* line 108: Free is pool.free
Free(n) ==
  /\ ~fault
  /\ freed + n <= com
  /\ pool' = free(pool, n)
  /\ freed' = freed + n
  /\ live' = Drop(live, n)
  /\ ret' = NoRet
  /\ UNCHANGED <<z, mem, rd, fault, cur, com, shifted, skipped, lenAt,
                 clobbered, retired, due, last, reads, swaps, mk>>

\* ------------------------------------------------------- specification
Next ==
  \/ \E off \in 0..MaxOff : Peek(off)
  \/ \E n \in (-MaxMove)..MaxMove : n # 0 /\ Move(n)
  \/ \E p \in 0..StreamLen : Rewind(p)
  \/ Shift
  \/ Skip
  \/ \E n \in 0..MaxFree : Free(n)

Spec == Init /\ [][Next]_vars

\* ShiftLen reads and writes prevStart alone, which no other operation
\* reads: it is kept out of Next and added here.
LenNext ==
  \/ Next
  \/ ShiftLen

LenSpec == Init /\ [][LenNext]_vars

\* ------------------------------------------------- mark, move, rewind
\* line 182: mark = Pos(); what Peek returns from here on is noted until
\* the cursor moves
Mark ==
  /\ ~fault
  /\ mk' = [phase |-> "marked", mark |-> Pos(z), sw |-> swaps,
            peeks |-> [i \in 0..MaxOff |-> -1], lex |-> Lexeme(z, mem)]
  /\ UNCHANGED <<z, pool, mem, rd, ret, fault, cur, com, shifted, skipped, lenAt,
                 live, freed, clobbered, retired, due, last, reads, swaps>>

\* line 187: Rewind(mark) after the cursor moved forward
RewindToMark ==
  /\ ~fault
  /\ mk.phase = "moved"
  /\ z' = RewindTo(z, mk.mark)
  /\ cur' = com + mk.mark
  /\ ret' = NoRet
  /\ mk' = [mk EXCEPT !.phase = "rewound"]
  /\ UNCHANGED <<pool, mem, rd, fault, com, shifted, skipped, lenAt, live,
                 freed, clobbered, retired, due, last, reads, swaps>>

\* Skip moves the token start as Shift does and Rewind the cursor as
\* RewindToMark and Move do: they are left out here.
MarkNext ==
  \/ \E off \in 0..MaxOff : Peek(off)
  \/ \E n \in (-MaxMove)..MaxMove : n # 0 /\ Move(n)
  \/ Shift
  \/ \E n \in 0..MaxFree : Free(n)
  \/ Mark
  \/ RewindToMark

MarkSpec == Init /\ [][MarkNext]_vars

\* -------------------------------------------------- decoding of runes
\* bytes the content is made of where PeekRune is followed: ASCII,
\* continuation bytes, and the leading bytes of 2, 3 and 4 byte sequences
RuneBytes == {36, 130, 172, 195, 226, 240}

\* lines 97-100 with the content the source exposes drawn from RuneBytes
RuneInitBytes ==
  /\ z = LexerOfBytes
  /\ pool = EmptyPool
  /\ \E content \in [1..StreamLen -> RuneBytes] : mem = <<content>>
  /\ rd = StreamLen
  /\ retired = 0
  /\ due = <<>>
  /\ last = [size |-> 0, buf |-> [id |-> 0, len |-> 0, cap |-> 0], path |-> "none"]
  /\ reads = 0
  /\ swaps = 0

RuneInit ==
  /\ (RuneInitBytes \/ InitSize)
  /\ ret = NoRet
  /\ fault = FALSE
  /\ cur = 0
  /\ com = 0
  /\ shifted = <<>>
  /\ skipped = FALSE
  /\ lenAt = 0
  /\ live = <<>>
  /\ freed = 0
  /\ clobbered = FALSE
  /\ mk = NoMark

RuneNext ==
  \/ \E off \in 0..MaxOff : PeekRune(off)
  \/ \E n \in (-MaxMove)..MaxMove : n # 0 /\ Move(n)
  \/ Shift

RuneSpec == RuneInit /\ [][RuneNext]_vars

\* ============================================================ claims
\* the bytes of the stream between absolute offsets lo and hi (hi exclusive);
\* the claims compare them at cur and com, which follow the calls' arguments alone
StreamSlice(lo, hi) == [i \in 1..(hi - lo) |-> Stream[lo + i]]

\* a block's bytes are all reported consumed
Covered(i) == freed >= due[i]

\* ---- C1
\* C1: while the counts passed to Free never exceed the committed bytes (Free
\* is only taken so), no refill gets for writing (left-over copy, source
\* read) storage that holds a committed byte not yet reported consumed, and
\* every such byte still holds the stream byte that was committed there.
C1_CommittedIntact ==
  /\ ~clobbered
  /\ \A k \in 1..Len(live) : mem[live[k][1]][live[k][2]] = Stream[freed + k]

\* storage was handed out again (recycled block) while committed bytes are unconsumed
C1_Witness == last.path = "recycled" /\ Len(live) > 0 /\ ~fault

\* ---- C2
\* C2: Lexeme() is exactly the stream between the last commit point and the
\* cursor and Pos() its length, in every state, whatever refills happened;
\* cur and com are not touched by Peek, so a Peek changes neither.
C2_LexemeIsStream ==
  /\ Lexeme(z, mem) = StreamSlice(com, cur)
  /\ Pos(z) = cur - com

\* a Peek just refilled in place (left-overs moved inside one array) under a non-empty lexeme
C2_Witness ==
  /\ ret.op = "Peek"
  /\ last.path = "inplace"
  /\ z.pos > 0
  /\ com > 0
  /\ ~fault

\* ---- C3
\* C3: with Skip never called, the Shift results concatenated are the stream
\* from its first byte to the last commit point.
C3_ShiftsReproduceStream == ~skipped => shifted = StreamSlice(0, com)

\* the whole stream was shifted out, over several refills
C3_Witness == ~skipped /\ com = StreamLen /\ swaps >= 3

\* ---- C4
\* C4: ShiftLen returns the bytes committed since the previous ShiftLen call,
\* never a negative number.
C4_ShiftLenIsCommitted == ret.op = "ShiftLen" => (ret.b >= 0 /\ ret.b = ret.a)

\* ---- C5
\* C5: Peek(offset) never fails: it returns the stream byte at cursor+offset
\* when the source has delivered it and 0 otherwise, without indexing outside
\* the buffer.
PeekExpected(off) == IF cur + off < rd THEN Stream[cur + off + 1] ELSE 0

C5_PeekNeverFails ==
  /\ ~fault
  /\ ret.op = "Peek" => ret.b = PeekExpected(ret.a)
  /\ \A off \in 0..MaxOff :
       (off + z.pos < z.buf.len \/ Exhausted(z)) => PeekValue(z, mem, off) = PeekExpected(off)

\* ---- C6
\* C6 as stated: whatever error is recorded, Err() is nil while the cursor is
\* before the end of the buffer, and the error once it is at the end.
C6_ErrSuppressesAnyError ==
  Err(z) = IF z.pos < z.buf.len THEN NoErr ELSE z.err

\* C6 amended: Err() is nil while no error is recorded, and while
\* end-of-stream is recorded and delivered bytes lie ahead of the cursor; it
\* is end-of-stream once the cursor is past the last delivered byte, and any
\* other error as soon as it is recorded.
C6_ErrSuppressesEOF ==
  Err(z) = IF z.err = EOF /\ cur < rd THEN NoErr ELSE z.err

\* the source returned end-of-stream with bytes the cursor has not passed
C6_Witness == z.err = EOF /\ cur < rd /\ reads >= 1 /\ Err(z) = NoErr

\* ---- C7
\* C7: once an error is recorded no step changes it, reads the source,
\* swaps, or changes the active buffer (its array, length or content).
C7_ExhaustedIsSticky ==
  [][z.err # NoErr =>
       /\ z'.err = z.err
       /\ reads' = reads
       /\ swaps' = swaps
       /\ z'.buf = z.buf
       /\ mem'[z.buf.id] = mem[z.buf.id]]_vars

\* after the refill that recorded an error, everything buffered was shifted out
C7_Witness ==
  /\ z.err # NoErr
  /\ reads >= 2
  /\ z.start = z.buf.len
  /\ z.buf.len > 0
  /\ ~fault

\* ---- C8
\* C8 as stated: after any swaps and frees, a block is inactive exactly when
\* the reported consumption covers it and the blocks retired before it.
C8_InactiveIffCovered ==
  \A i \in 1..Len(pool.pool) : ~pool.pool[i].active <=> Covered(i)

\* an inactive block is covered
C8_NeverEarly ==
  \A i \in 1..Len(pool.pool) : ~pool.pool[i].active => Covered(i)

\* C8 amended: a block is never inactive before it is covered; on return
\* from free every covered block is inactive, the blocks this call
\* deactivated are those retired first among the active ones, and the chain
\* is empty or pos is below the tail block's length.  (A block that swap
\* retires already covered stays active until the next free.)
C8_FreeIsExact ==
  [][/\ C8_NeverEarly'
     /\ (\E n \in 0..MaxFree : Free(n)) =>
          /\ \A i \in 1..Len(pool.pool) : (~pool'.pool[i].active <=> freed' >= due[i])
          /\ \A i, j \in 1..Len(pool.pool) :
               (/\ pool.pool[i].active
                /\ pool.pool[j].active
                /\ due[j] < due[i]
                /\ ~pool'.pool[i].active) => ~pool'.pool[j].active
          /\ (pool'.tail = 0 \/ pool'.pos < pool'.pool[pool'.tail].buf.len)]_vars

\* one block drained, the next partly consumed
C8_Witness ==
  /\ pool.tail # 0
  /\ pool.pos > 0
  /\ \E i \in 1..Len(pool.pool) : ~pool.pool[i].active

\* ---- C9
\* C9: after mark = Pos(), forward moves (with refills) and Rewind(mark), each
\* Peek(i) returns what it returned immediately before the cursor moved, and
\* Lexeme() and Pos() are what they were.
C9_RewindRestores ==
  mk.phase = "rewound" =>
    /\ Pos(z) = mk.mark
    /\ Lexeme(z, mem) = mk.lex
    /\ \A i \in 0..MaxOff :
         mk.peeks[i] # -1 =>
           /\ (i + z.pos < z.buf.len \/ Exhausted(z))
           /\ PeekValue(z, mem, i) = mk.peeks[i]

\* rewound to a mark inside a token, after a refill during the forward movement
C9_Witness ==
  /\ mk.phase = "rewound"
  /\ swaps > mk.sw
  /\ mk.mark > 0
  /\ mk.peeks[0] > 0

\* ---- C10
\* C10: the buffer swap returns has length 0 and at least the capacity asked.
C10_SwapReturnsEmptyOfCapacity ==
  last.path # "none" => (last.buf.len = 0 /\ last.buf.cap >= last.size)

\* swap handed out a recycled block
C10_Witness == last.path = "recycled" /\ swaps >= 3

\* ---- C11
\* the inactive blocks of capacity at least size
Fitting(P, size) ==
  {i \in 1..Len(P.pool) : ~P.pool[i].active /\ size <= P.pool[i].buf.cap}

\* C11: a swap made while the pool holds an inactive block of at least the
\* capacity asked allocates nothing (no block, no array is added) and returns
\* the storage of the lowest-indexed such block.
C11_SwapRecyclesFirstFit ==
  [][(swaps' = swaps + 1 /\ Fitting(pool, last'.size) # {}) =>
       /\ Len(pool'.pool) = Len(pool.pool)
       /\ Len(mem') = Len(mem)
       /\ \E i \in Fitting(pool, last'.size) :
            /\ \A j \in Fitting(pool, last'.size) : i <= j
            /\ last'.buf.id = pool.pool[i].buf.id
            /\ last'.buf.cap = pool.pool[i].buf.cap]_vars

\* swap recycled a block reclaimed by free (the retired buffer now sits in its
\* slot, the head) while a higher-indexed inactive block fitted too
C11_Witness ==
  /\ last.path = "recycled"
  /\ freed > 0
  /\ \E j \in 1..Len(pool.pool) :
       /\ pool.head < j
       /\ ~pool.pool[j].active
       /\ last.size <= pool.pool[j].buf.cap

\* ---- C12
\* streaming mode: the Lexer was built over a source that is read (the
\* construction of lines 102-106 calls Read once; that of lines 97-100 never)
Streaming == reads >= 1

\* Err() is end-of-stream only with every delivered byte before the cursor
C12_NoEarlyEOF == (Streaming /\ Err(z) = EOF) => cur >= rd

\* C12: in streaming mode Err() is end-of-stream only with every delivered
\* byte before the cursor; while no error is recorded Err() is nil wherever
\* the cursor is, the end of the buffer included, and end-of-stream is
\* recorded only by a refill (a Peek at or past the end of the buffer) whose
\* read returned zero bytes or delivered the last byte of the stream (the
\* reads with which the source can signal it).  Once it is recorded, Err()
\* turns to end-of-stream without a refill only at the step that brings the
\* cursor to the end of the delivered bytes.
C12_EOFOnlyAfterSignal ==
  [][/\ C12_NoEarlyEOF'
     /\ (Streaming' /\ z'.err = NoErr) => Err(z') = NoErr
     /\ (Streaming /\ z.err = NoErr /\ z'.err = EOF) =>
          (reads' = reads + 1 /\ (rd' = rd \/ rd' = StreamLen))
     /\ (Streaming /\ Err(z) # EOF /\ Err(z') = EOF /\ reads' = reads) =>
          (z.err = EOF /\ z'.pos = z'.buf.len /\ cur' = rd)]_vars

\* every buffered byte was consumed, then a refill read zero bytes before the
\* end of the stream and Err() is end-of-stream
C12_Witness ==
  /\ reads >= 2
  /\ Err(z) = EOF
  /\ rd < StreamLen
  /\ cur = rd
  /\ com = cur
  /\ cur > 0

\* ---- C13
\* the byte of the source at absolute offset k as a Peek returns it: the
\* byte if the source has delivered it (or exposed it), 0 otherwise
SourceByte(k) ==
  IF Streaming
  THEN IF k < rd THEN Stream[k + 1] ELSE 0
  ELSE IF k < z.buf.len THEN mem[z.buf.id][k + 1] ELSE 0

\* the length the leading byte c announces
LeaderLen(c) ==
  CASE c < 192 -> 1
    [] c >= 192 /\ c < 224 -> 2
    [] c >= 224 /\ c < 240 -> 3
    [] OTHER -> 4

\* v followed by the low 6 bits of each byte of bs
RECURSIVE Followed(_, _)
Followed(v, bs) ==
  IF bs = <<>> THEN v ELSE Followed(v * 64 + (Head(bs) % 64), Tail(bs))

\* the rune and length of the sequence at absolute offset k: a byte below
\* 0xC0 is its own rune; a leader of length 2, 3, 4 gives its low 5, 4, 3
\* bits followed by the low 6 bits of each following byte
Decoded(k) ==
  LET c == SourceByte(k)
      n == LeaderLen(c)
  IN <<IF n = 1 THEN c
       ELSE Followed(c % (2 ^ (7 - n)), [i \in 1..(n - 1) |-> SourceByte(k + i)]),
       n>>

\* PeekRune(off) refills nowhere: each byte it peeks is buffered, or an
\* error is recorded
RuneBuffered(off) ==
  \A i \in 0..(LeaderLen(SourceByte(cur + off)) - 1) :
     off + i + z.pos < z.buf.len \/ Exhausted(z)

\* C13: PeekRune(offset) returns the rune and the length that the leading
\* byte rules give for the bytes at cursor+offset, whatever the bytes are
\* (0xE2 0x82 0xAC give 0x20AC and 3), and leaves the cursor where it was,
\* also when its Peeks refill.
C13_PeekRuneDecodes ==
  /\ RuneOf(226, 130, 172, 0) = 8364 /\ RuneLen(226) = 3
  /\ (ret.op = "PeekRune" /\ ~fault) =>
        /\ <<ret.b, ret.n>> = Decoded(cur + ret.a)
        /\ Pos(z) = cur - com
  /\ \A off \in 0..MaxOff :
        RuneBuffered(off) => PeekRuneValue(z, mem, off) = Decoded(cur + off)

\* PeekRune(0) found the leading byte 0xE2 buffered, its Peeks of the two
\* following bytes refilled twice, and it returned (0x20AC, 3)
C13_Witness ==
  /\ ret.op = "PeekRune"
  /\ ret.a = 0
  /\ ret.b = 8364
  /\ ret.n = 3
  /\ cur = 0
  /\ reads = 3
  /\ ~fault

\* ---- C14
\* C14: with Move and Rewind kept inside the buffered window (their guards),
\* 0 <= start <= pos <= len(buf) <= cap(buf) in every state, after a refill
\* as well.
C14_CursorInvariant ==
  /\ 0 <= z.start
  /\ z.start <= z.pos
  /\ z.pos <= z.buf.len
  /\ z.buf.len <= z.buf.cap

\* a refill renumbered a token start that was not 0, with the cursor inside the token
C14_Witness ==
  /\ ret.op = "Peek"
  /\ retired > 0
  /\ last.path # "inplace"
  /\ z.start = 0
  /\ z.pos > 0
  /\ z.pos < z.buf.len
  /\ com = retired
  /\ ~fault

\* ---- C15
\* C15 as stated: in every state, after a swap as after a free, the chain
\* is empty or pos is below the length of the tail block.
C15_PosBelowTailLength ==
  pool.tail = 0 \/ pool.pos < pool.pool[pool.tail].buf.len

\* C15 amended: the chain is empty or pos is below the tail block's length
\* on return from every free; a swap keeps this when the chain is not
\* empty, and when the chain is empty and it does not reuse in place it
\* interns the retired buffer as the tail whatever pos is: pos is then below
\* the tail's length only if it is below the retired buffer's length (not
\* for a retired buffer of length 0, or one wholly reported consumed), and
\* stays at or above it until the next free.
C15_PosBelowTailAfterFree ==
  [][/\ (\E n \in 0..MaxFree : Free(n)) => C15_PosBelowTailLength'
     /\ (swaps' = swaps + 1) =>
          (C15_PosBelowTailLength' <=>
             /\ C15_PosBelowTailLength
             /\ (pool.tail = 0 /\ last'.path # "inplace") => pool.pos < z.start)
     /\ (swaps' = swaps /\ ~(\E n \in 0..MaxFree : Free(n))) =>
          (C15_PosBelowTailLength' <=> C15_PosBelowTailLength)]_vars

\* a free left the tail block partly consumed, and a swap has interned another since
C15_Witness ==
  /\ pool.tail # 0
  /\ pool.tail # pool.head
  /\ pool.pos > 0
  /\ pool.pos < pool.pool[pool.tail].buf.len
  /\ ret.op = "Peek"
  /\ ~fault

\* ---- C16
\* C16: a swap that reuses in place found no inactive block of the capacity
\* asked, an empty chain, a retired buffer (z.buf[:z.start]) of at least that
\* capacity and pos at least its length; it returns the retired buffer's
\* storage with length 0, takes the retired length off pos, and changes
\* nothing else of the pool and allocates nothing.
C16_InPlaceReuse ==
  [][(swaps' = swaps + 1 /\ last'.path = "inplace") =>
       /\ Fitting(pool, last'.size) = {}
       /\ pool.tail = 0
       /\ z.buf.cap >= last'.size
       /\ pool.pos >= z.start
       /\ last'.buf = [id |-> z.buf.id, len |-> 0, cap |-> z.buf.cap]
       /\ z'.buf.id = z.buf.id
       /\ pool'.pos = pool.pos - z.start
       /\ pool'.pool = pool.pool
       /\ pool'.head = pool.head
       /\ pool'.tail = pool.tail
       /\ Len(mem') = Len(mem)]_vars

\* a swap reused in place a buffer whose committed bytes had been reported
\* consumed, with inactive blocks in the pool that were too small
C16_Witness ==
  /\ last.path = "inplace"
  /\ ret.op = "Peek"
  /\ freed > 0
  /\ Len(pool.pool) > 0
  /\ ~fault

\* ---- C17
\* C17: the capacity a refill asks of the pool is at least the needed
\* length p + 1, the bytes from the token start through the peeked byte (at
\* least 1, whatever the initial size), and the buffer it gets has room for
\* that byte.  After the refill the token start is 0, so p is the cursor
\* plus the offset peeked (0 for the Peek(0) of the construction).
C17_RequestHoldsPeekedByte ==
  /\ last.path # "none" => (last.size >= 1 /\ last.buf.cap >= 1)
  /\ ret.op = "Peek" => last.size >= z.pos + ret.a + 1

\* the same for the buffers that have a capacity: what is left of C17 once a
\* buffer of capacity 0 is set apart
C17_ExceptCapacityZero == z.buf.cap = 0 \/ C17_RequestHoldsPeekedByte

\* ---- C18
\* a Lexer built over a source that exposes its content is the only one
\* built without a Read
BytesMode == reads = 0

\* the content is the buffer, end-of-stream is recorded, the pool holds no
\* block and no chain, a Peek returns the byte of the content at
\* cursor+offset and 0 at or past its end, and Err() is nil exactly while
\* the cursor is before the end of the content
C18_BytesAdopted ==
  BytesMode =>
    /\ swaps = 0
    /\ z.err = EOF
    /\ z.buf = [id |-> 1, len |-> StreamLen, cap |-> StreamLen]
    /\ mem = <<Stream>>
    /\ pool.pool = <<>> /\ pool.head = 0 /\ pool.tail = 0
    /\ \A off \in 0..MaxOff :
         PeekValue(z, mem, off) = IF cur + off < StreamLen THEN Stream[cur + off + 1] ELSE 0
    /\ (Err(z) = NoErr <=> cur < StreamLen)
    /\ ~fault

\* C18: a Lexer built over a source that exposes its content adopts it and
\* starts exhausted, and no operation ever refills: Read and swap are never
\* called and the buffer is never replaced or written.
C18_BytesNeverRefills ==
  /\ []C18_BytesAdopted
  /\ [][BytesMode =>
          /\ reads' = 0
          /\ swaps' = 0
          /\ z'.buf = z.buf
          /\ z'.err = z.err
          /\ mem' = mem]_vars

\* over the adopted content: the cursor is at its end, part of it was
\* committed and reported consumed
C18_Witness ==
  /\ reads = 0
  /\ cur = StreamLen
  /\ z.pos = z.buf.len
  /\ com > 0
  /\ com < cur
  /\ freed > 0

\* ---- C19
\* the blocks met from block i following the next links, at most k of them
RECURSIVE ChainFrom(_, _, _)
ChainFrom(P, i, k) ==
  IF i = 0 \/ k = 0 THEN <<>>
  ELSE <<i>> \o ChainFrom(P, P.pool[i].next, k - 1)

\* the chain from tail; longer than the pool if the links loop
Chain(P) == ChainFrom(P, P.tail, Len(P.pool) + 1)

\* C19: head is none exactly when tail is; the next links lead from tail to
\* head without meeting a block twice and head has no successor; the blocks
\* on the chain are exactly the active ones.
C19_ChainWellFormed ==
  LET c == Chain(pool)
  IN /\ (pool.head = 0 <=> pool.tail = 0)
     /\ Len(c) <= Len(pool.pool)
     /\ \A i, j \in 1..Len(c) : c[i] = c[j] => i = j
     /\ pool.tail # 0 => (c[Len(c)] = pool.head /\ pool.pool[pool.head].next = 0)
     /\ {c[i] : i \in 1..Len(c)} = {i \in 1..Len(pool.pool) : pool.pool[i].active}

\* after frees and swaps, a chain of two blocks or more whose head sits in a
\* recycled slot below the tail's
C19_Witness ==
  /\ Len(Chain(pool)) >= 2
  /\ last.path = "recycled"
  /\ pool.head < pool.tail
  /\ freed > 0

\* ---- C20
\* no pool block holds the array of the active buffer, and no two blocks
\* hold the same array
C20_StorageDistinct ==
  /\ \A i \in 1..Len(pool.pool) : pool.pool[i].buf.id # z.buf.id
  /\ \A i, j \in 1..Len(pool.pool) :
       pool.pool[i].buf.id = pool.pool[j].buf.id => i = j

\* C20: the active buffer's storage is in no pool block and no two blocks
\* share storage, in every state; a swap that does not reuse in place takes
\* the returned storage out of its slot and puts the retired buffer there,
\* and a refill (left-over copy, source read) changes no byte of an array
\* that a pool block holds after it.
C20_NoStorageAliasing ==
  /\ []C20_StorageDistinct
  /\ [][(swaps' = swaps + 1) =>
          /\ last'.path # "inplace" =>
                /\ pool'.head # 0
                /\ pool'.pool[pool'.head].buf = [z.buf EXCEPT !.len = z.start]
                /\ z'.buf.id = last'.buf.id
                /\ z'.buf.id # z.buf.id
          /\ \A i \in 1..Len(pool'.pool) :
                pool'.pool[i].buf.id <= Len(mem) =>
                  mem'[pool'.pool[i].buf.id] = mem[pool'.pool[i].buf.id]]_vars

\* the active buffer is storage recycled from the pool, written by the
\* refill, while the pool holds other buffers, one of them still active
C20_Witness ==
  /\ last.path = "recycled"
  /\ ret.op = "Peek"
  /\ z.buf.len > 0
  /\ Len(pool.pool) >= 2
  /\ pool.tail # 0
  /\ ~fault

====
